---- MODULE Spec2Model ----
(***************************************************************************)
(* Model of the Gen AI assistant: the institution resolver                 *)
(* (utils/institution.py), the fixed-corpus IPC chain (utils/ipc_bot.py),  *)
(* the document ingestion (utils/doc_qa.py) and the three request handlers *)
(* of app.py.                                                              *)
(*                                                                         *)
(* A Python str is a sequence of one-character strings, so that            *)
(* capitalize(), lower(), upper(), split(), replace() and the `in`         *)
(* substring test are computed and not assumed.  A multi-line text (a      *)
(* summary) is the sequence of its lines.                                  *)
(***************************************************************************)
EXTENDS Integers, Sequences, FiniteSets, TLC

\* Python's None, where the other values are strings
None == "None"

\* an Optional value: None is the empty set, a value x is {x}
Nothing == {}
Some(x) == {x}
Val(o) == CHOOSE x \in o : TRUE

(***************************************************************************)
(* str methods                                                             *)
(***************************************************************************)
UpperChars ==
    <<"A","B","C","D","E","F","G","H","I","J","K","L","M",
      "N","O","P","Q","R","S","T","U","V","W","X","Y","Z">>

LowerChars ==
    <<"a","b","c","d","e","f","g","h","i","j","k","l","m",
      "n","o","p","q","r","s","t","u","v","w","x","y","z">>

\* c.lower() of one character
LowerChar(c) ==
    IF \E i \in 1..Len(UpperChars) : UpperChars[i] = c
    THEN LowerChars[CHOOSE i \in 1..Len(UpperChars) : UpperChars[i] = c]
    ELSE c

\* c.upper() of one character
UpperChar(c) ==
    IF \E i \in 1..Len(LowerChars) : LowerChars[i] = c
    THEN UpperChars[CHOOSE i \in 1..Len(LowerChars) : LowerChars[i] = c]
    ELSE c

\* s.lower()
Lower(s) == [i \in 1..Len(s) |-> LowerChar(s[i])]

\* s.upper()
Upper(s) == [i \in 1..Len(s) |-> UpperChar(s[i])]

\* word.capitalize(): first character upper-cased, the rest lower-cased
Capitalize(w) ==
    [i \in 1..Len(w) |-> IF i = 1 THEN UpperChar(w[i]) ELSE LowerChar(w[i])]

\* s.split(): the maximal runs of non-whitespace characters, in order
RECURSIVE SplitFrom(_, _, _)
SplitFrom(s, i, word) ==
    IF i > Len(s)
    THEN IF word = <<>> THEN <<>> ELSE <<word>>
    ELSE IF s[i] = " "
         THEN IF word = <<>>
              THEN SplitFrom(s, i + 1, <<>>)
              ELSE <<word>> \o SplitFrom(s, i + 1, <<>>)
         ELSE SplitFrom(s, i + 1, Append(word, s[i]))

Split(s) == SplitFrom(s, 1, <<>>)

\* " ".join(words)
RECURSIVE JoinSpace(_)
JoinSpace(words) ==
    IF words = <<>> THEN <<>>
    ELSE IF Len(words) = 1 THEN words[1]
    ELSE words[1] \o <<" ">> \o JoinSpace(Tail(words))

\* s.replace(' ', '_')
ReplaceSpaces(s) == [i \in 1..Len(s) |-> IF s[i] = " " THEN "_" ELSE s[i]]

\* the test refusing the empty str as a part of anything
IsSubstringNonEmpty(a, b) ==
    /\ Len(a) > 0
    /\ \E i \in 0..(Len(b) - Len(a)) : SubSeq(b, i + 1, i + Len(a)) = a

\* a in b, for two strs
IsSubstring(a, b) ==
    \E i \in 0..(Len(b) - Len(a)) : SubSeq(b, i + 1, i + Len(a)) = a

\* " ".join([word.capitalize() for word in name.split()])
TitleCaseWords(name) ==
    LET words == Split(name)
    IN  JoinSpace([i \in 1..Len(words) |-> Capitalize(words[i])])

(***************************************************************************)
(* HARDCODED_INSTITUTION_DATA and the names the lookups are tried on       *)
(***************************************************************************)
\* "Indian Institute of Technology Bombay" (institution.py:131)
Key1 ==
    <<"I","n","d","i","a","n"," ","I","n","s","t","i","t","u","t","e"," ",
      "o","f"," ","T","e","c","h","n","o","l","o","g","y"," ","B","o","m",
      "b","a","y">>

\* "Indian Institute of Science" (institution.py:144)
Key2 ==
    <<"I","n","d","i","a","n"," ","I","n","s","t","i","t","u","t","e"," ",
      "o","f"," ","S","c","i","e","n","c","e">>

\* "All India Institute of Medical Sciences, Delhi" (institution.py:157)
Key3 ==
    <<"A","l","l"," ","I","n","d","i","a"," ","I","n","s","t","i","t","u",
      "t","e"," ","o","f"," ","M","e","d","i","c","a","l"," ","S","c","i",
      "e","n","c","e","s",","," ","D","e","l","h","i">>

\* "Jawaharlal Nehru University" (institution.py:170)
Key4 ==
    <<"J","a","w","a","h","a","r","l","a","l"," ","N","e","h","r","u"," ",
      "U","n","i","v","e","r","s","i","t","y">>

\* "Stanford University" (institution.py:183)
Key5 ==
    <<"S","t","a","n","f","o","r","d"," ","U","n","i","v","e","r","s","i",
      "t","y">>

\* "Massachusetts Institute of Technology" (institution.py:196)
Key6 ==
    <<"M","a","s","s","a","c","h","u","s","e","t","t","s"," ","I","n","s",
      "t","i","t","u","t","e"," ","o","f"," ","T","e","c","h","n","o","l",
      "o","g","y">>

Details1 ==
    [name |-> Key1, founder |-> "Dr. Bhabha", founded_year |-> "1958",
     branches |-> <<"Mumbai">>, employees |-> "5000+",
     summary |-> <<"The Indian Institute of Technology Bombay (IIT Bombay) is one of India's most prestigious engineering and research institutions, established in 1958. Located in Powai, Mumbai, its sprawling campus is a hub of academic excellence and innovation. IIT Bombay is consistently ranked among the top technical universities in India and globally, attracting brilliant minds from across the country. It offers a wide array of undergraduate, postgraduate, and doctoral programs in engineering, science, humanities, and management.">>]

Details2 ==
    [name |-> Key2, founder |-> "Jamsetji Tata", founded_year |-> "1909",
     branches |-> <<"Bengaluru">>, employees |-> "3000+",
     summary |-> <<"The Indian Institute of Science (IISc), located in Bengaluru, is India's premier institution for advanced scientific and technological research and education. It was established in 1909 with the visionary support of Jamsetji Tata and the then Maharaja of Mysore, becoming a cornerstone of India's scientific progress. IISc is internationally recognized for its rigorous academic programs, pioneering research, and significant contributions to fundamental and applied sciences. The institute offers a wide range of master's and doctoral programs in various disciplines.">>]

Details3 ==
    [name |-> Key3, founder |-> "Government of India", founded_year |-> "1956",
     branches |-> <<"New Delhi">>, employees |-> "10000+",
     summary |-> <<"The All India Institute of Medical Sciences, New Delhi (AIIMS Delhi) stands as India's leading medical institution, established in 1956 by the Government of India. It operates as a public medical research university and hospital, setting national benchmarks for medical education, research, and patient care. AIIMS Delhi is consistently ranked as the top medical college in the country, renowned for its highly specialized clinical services and advanced research facilities. It offers comprehensive undergraduate and postgraduate medical and paramedical courses.">>]

Details4 ==
    [name |-> Key4, founder |-> "Government of India", founded_year |-> "1969",
     branches |-> <<"New Delhi">>, employees |-> "1200+",
     summary |-> <<"Jawaharlal Nehru University (JNU) is a public central university located in New Delhi, India. It was established in 1969 and is known for its liberal arts and social science programs. JNU is one of the leading universities in India, recognized for its research in various fields. It attracts students and faculty from across the globe.">>]

Details5 ==
    [name |-> Key5, founder |-> "Leland Stanford, Jane Stanford", founded_year |-> "1885",
     branches |-> <<"Stanford, California">>, employees |-> "20000+",
     summary |-> <<"Stanford University, officially Leland Stanford Junior University, is a private research university in Stanford, California. It was founded in 1885 by Leland and Jane Stanford in memory of their son, Leland Stanford Jr. The university is known for its academic excellence, research, and proximity to Silicon Valley, fostering innovation and entrepreneurship. It offers programs in a wide range of disciplines.">>]

Details6 ==
    [name |-> Key6, founder |-> "William Barton Rogers", founded_year |-> "1861",
     branches |-> <<"Cambridge, Massachusetts">>, employees |-> "12000+",
     summary |-> <<"The Massachusetts Institute of Technology (MIT) is a private land-grant research university in Cambridge, Massachusetts. Established in 1861, MIT is known for its cutting-edge research and education in science, engineering, and technology. It has played a key role in the development of modern technology and scientific advancements. MIT consistently ranks among the world's top universities.">>]

\* "iit bombay"
NameIitBombayLower ==
    <<"i","i","t"," ","b","o","m","b","a","y">>

\* "IIT BOMBAY"
NameIitBombayUpper ==
    <<"I","I","T"," ","B","O","M","B","A","Y">>

\* "jnu"
NameJnu ==
    <<"j","n","u">>

\* "aiims delhi"
NameAiimsDelhi ==
    <<"a","i","i","m","s"," ","d","e","l","h","i">>

\* "University of Gondor"
NameGondor ==
    <<"U","n","i","v","e","r","s","i","t","y"," ","o","f"," ","G","o","n",
      "d","o","r">>

\* "Fictional University of Nowhere XYZ"
NameNowhere ==
    <<"F","i","c","t","i","o","n","a","l"," ","U","n","i","v","e","r","s",
      "i","t","y"," ","o","f"," ","N","o","w","h","e","r","e"," ","X","Y",
      "Z">>

\* "institute"
NameInstitute ==
    <<"i","n","s","t","i","t","u","t","e">>

\* "  stanford   university "
NameUniversityPadded ==
    <<" "," ","s","t","a","n","f","o","r","d"," "," "," ","u","n","i","v",
      "e","r","s","i","t","y"," ">>

\* "Jawaharlal_Nehru_University"
UrlJnu ==
    <<"J","a","w","a","h","a","r","l","a","l","_","N","e","h","r","u","_",
      "U","n","i","v","e","r","s","i","t","y">>

\* "Indian_Institute_of_Technology_Bombay"
UrlIitBombay ==
    <<"I","n","d","i","a","n","_","I","n","s","t","i","t","u","t","e","_",
      "o","f","_","T","e","c","h","n","o","l","o","g","y","_","B","o","m",
      "b","a","y">>

\* "All_India_Institute_of_Medical_Sciences,_Delhi"
UrlAiimsDelhi ==
    <<"A","l","l","_","I","n","d","i","a","_","I","n","s","t","i","t","u",
      "t","e","_","o","f","_","M","e","d","i","c","a","l","_","S","c","i",
      "e","n","c","e","s",",","_","D","e","l","h","i">>

StrJNU == <<"J","N","U">>
StrIITBOMBAY == <<"I","I","T"," ","B","O","M","B","A","Y">>
StrAIIMSDELHI == <<"A","I","I","M","S"," ","D","E","L","H","I">>
HdrFounder == <<"F","o","u","n","d","e","r">>
HdrEstablished == <<"E","s","t","a","b","l","i","s","h","e","d">>
HdrFounded == <<"F","o","u","n","d","e","d">>
HdrCampus == <<"C","a","m","p","u","s">>
HdrLocation == <<"L","o","c","a","t","i","o","n">>
HdrBranches == <<"B","r","a","n","c","h","e","s">>
HdrEmployees == <<"E","m","p","l","o","y","e","e","s">>
HdrStaff == <<"S","t","a","f","f">>
HdrPresident == <<"P","r","e","s","i","d","e","n","t">>
HdrDirector == <<"D","i","r","e","c","t","o","r">>
HdrAcademicStaff == <<"A","c","a","d","e","m","i","c"," ","s","t","a","f","f">>
HdrMotto == <<"M","o","t","t","o">>

\* The catalog as written in the source; a dict iterates in insertion order.
HardcodedInstitutionData ==
    << [key |-> Key1, details |-> Details1],
       [key |-> Key2, details |-> Details2],
       [key |-> Key3, details |-> Details3],
       [key |-> Key4, details |-> Details4],
       [key |-> Key5, details |-> Details5],
       [key |-> Key6, details |-> Details6] >>

CatalogKeys == << Key1, Key2, Key3, Key4, Key5, Key6 >>

(***************************************************************************)
(* Bounds and inputs                                                       *)
(***************************************************************************)
\* longest generated input name
MaxNameLen == 3

\* characters of the generated input names
NameChars == {"i", "N", " "}

GeneratedNames == UNION {[1..n -> NameChars] : n \in 0..MaxNameLen}

\* every catalog key as written, lower-cased and upper-cased
CasedKeyNames ==
    UNION {{CatalogKeys[i], Lower(CatalogKeys[i]), Upper(CatalogKeys[i])} :
               i \in 1..Len(CatalogKeys)}

ListedNames ==
    {NameIitBombayLower, NameIitBombayUpper, NameJnu, NameAiimsDelhi,
     NameGondor, NameNowhere, NameInstitute, NameUniversityPadded}

InputNames == GeneratedNames \cup CasedKeyNames \cup ListedNames

(***************************************************************************)
(* The pages a fetch can bring back                                        *)
(***************************************************************************)
TitlePlain == <<"I","n","s","t","i","t","u","t","e"," ","-"," ","W","i","k","i">>
TitleDisambiguation ==
    <<"I","I","T"," ","(","D","i","s","a","m","b","i","g","u","a","t","i","o","n",")">>
StrDisambiguation ==
    <<"d","i","s","a","m","b","i","g","u","a","t","i","o","n">>
H1Text == <<"O","f","f","i","c","i","a","l"," ","N","a","m","e">>

\* one <tr> of the infobox: th/td present, header text, data text, the
\* first match of \b\d{4}\b in the data text (None when there is none), and
\* the comma-separated pieces of the data text, stripped, with whether the
\* piece contains "Campus"
RowFounder ==
    [th |-> TRUE, td |-> TRUE, header |-> HdrFounder, text |-> "J. Doe",
     year |-> None, parts |-> <<[text |-> "J. Doe", campus |-> FALSE]>>]
RowEstablished ==
    [th |-> TRUE, td |-> TRUE, header |-> HdrEstablished,
     text |-> "15 March 1958", year |-> "1958",
     parts |-> <<[text |-> "15 March 1958", campus |-> FALSE]>>]
RowFoundedText ==
    [th |-> TRUE, td |-> TRUE, header |-> HdrFounded,
     text |-> "19th century", year |-> None,
     parts |-> <<[text |-> "19th century", campus |-> FALSE]>>]
RowLocation ==
    [th |-> TRUE, td |-> TRUE, header |-> HdrLocation,
     text |-> "Mumbai,India,Mumbai", year |-> None,
     parts |-> <<[text |-> "Mumbai", campus |-> FALSE],
                 [text |-> "India", campus |-> FALSE],
                 [text |-> "Mumbai", campus |-> FALSE]>>]
RowCampus ==
    [th |-> TRUE, td |-> TRUE, header |-> HdrCampus,
     text |-> "Urban Campus", year |-> None,
     parts |-> <<[text |-> "Urban Campus", campus |-> TRUE]>>]
RowStaff ==
    [th |-> TRUE, td |-> TRUE, header |-> HdrStaff, text |-> "1,200",
     year |-> None, parts |-> <<[text |-> "1", campus |-> FALSE],
                                [text |-> "200", campus |-> FALSE]>>]
RowAcademicStaff ==
    [th |-> TRUE, td |-> TRUE, header |-> HdrAcademicStaff, text |-> "700",
     year |-> None, parts |-> <<[text |-> "700", campus |-> FALSE]>>]
RowDirector ==
    [th |-> TRUE, td |-> TRUE, header |-> HdrDirector, text |-> "A. Kumar",
     year |-> None, parts |-> <<[text |-> "A. Kumar", campus |-> FALSE]>>]
RowCaption ==
    [th |-> TRUE, td |-> FALSE, header |-> HdrMotto, text |-> "",
     year |-> None, parts |-> <<>>]

\* the <tr> lists of the infobox tables tried
InfoboxRows ==
    { <<>>,
      <<RowCaption, RowEstablished>>,
      <<RowFounder, RowEstablished, RowLocation, RowCampus, RowStaff, RowDirector>>,
      <<RowFounder, RowLocation, RowAcademicStaff, RowStaff>>,
      <<RowFoundedText>> }

\* soup.find(...) gives an element or None
Infoboxes == {Nothing} \cup {Some(rows) : rows \in InfoboxRows}

\* one <p>: its stripped text and what the summary filter looks at
ParCoordinates ==
    [text |-> "Coordinates: 19N 72E", startsCoordinates |-> TRUE,
     otherUses |-> FALSE, banner |-> FALSE]
ParOtherUses ==
    [text |-> "For other uses, see IIT.", startsCoordinates |-> FALSE,
     otherUses |-> TRUE, banner |-> FALSE]
ParEmpty ==
    [text |-> "", startsCoordinates |-> FALSE, otherUses |-> FALSE,
     banner |-> FALSE]
ParText(t) ==
    [text |-> t, startsCoordinates |-> FALSE, otherUses |-> FALSE,
     banner |-> FALSE]

ParagraphLists ==
    { <<>>,
      <<ParEmpty, ParCoordinates, ParOtherUses>>,
      <<ParCoordinates, ParText("First.")>>,
      <<ParText("First."), ParText("Second."), ParEmpty, ParText("Third."),
        ParText("Fourth."), ParText("Fifth.")>>,
      <<ParText("No summary found.")>> }

Pages ==
    [ disambigbox : BOOLEAN,
      title : {Nothing, Some(TitlePlain), Some(TitleDisambiguation)},
      infobox : Infoboxes,
      paragraphs : ParagraphLists,
      h1 : {Nothing, Some(H1Text)} ]

\* the page of a request that brought none back
NoPage ==
    [disambigbox |-> FALSE, title |-> Nothing, infobox |-> Nothing,
     paragraphs |-> <<>>, h1 |-> Nothing]

\* what requests.get and raise_for_status do: raise, or pass a page on
HttpFailures == {"Timeout", "ConnectionError", "HTTPError"}

Responses ==
    {[http |-> h, page |-> NoPage] : h \in HttpFailures}
        \cup {[http |-> "ok", page |-> p] : p \in Pages}

(***************************************************************************)
(* fetch_from_wikipedia                                                    *)
(***************************************************************************)
\* the page title the URL is built from: the capitalized words, or the
\* direct page of a known abbreviation
WikipediaTitle(institution_name) ==
    LET normalized_search_term == TitleCaseWords(institution_name)
    IN  IF Upper(normalized_search_term) = StrJNU THEN UrlJnu
        ELSE IF Upper(normalized_search_term) = StrIITBOMBAY THEN UrlIitBombay
        ELSE IF Upper(normalized_search_term) = StrAIIMSDELHI THEN UrlAiimsDelhi
        ELSE ReplaceSpaces(normalized_search_term)

\* the fields the row loop fills, before the first row
FoundDefaults ==
    [founder |-> "Not Available", founded_year |-> "Not Available",
     branches |-> <<>>, employees |-> "Not Available"]

\* [b.strip() for b in branches_raw if b.strip() and "Campus" not in b]
RECURSIVE KeptBranches(_)
KeptBranches(parts) ==
    IF parts = <<>> THEN <<>>
    ELSE (IF parts[1].campus THEN <<>> ELSE <<parts[1].text>>)
             \o KeptBranches(Tail(parts))

\* the body of the loop over infobox.find_all('tr'), for one row
ParseRow(found, row) ==
    IF ~(row.th /\ row.td) THEN found
    ELSE IF IsSubstring(HdrFounder, row.header)
         THEN [found EXCEPT !.founder = row.text]
    ELSE IF IsSubstring(HdrEstablished, row.header)
              \/ IsSubstring(HdrFounded, row.header)
         THEN [found EXCEPT !.founded_year =
                   IF row.year # None THEN row.year ELSE row.text]
    ELSE IF IsSubstring(HdrCampus, row.header)
              \/ IsSubstring(HdrLocation, row.header)
              \/ IsSubstring(HdrBranches, row.header)
         THEN [found EXCEPT !.branches = @ \o KeptBranches(row.parts)]
    ELSE IF IsSubstring(HdrEmployees, row.header)
              \/ IsSubstring(HdrStaff, row.header)
         THEN [found EXCEPT !.employees = row.text]
    ELSE IF IsSubstring(HdrPresident, row.header)
              \/ IsSubstring(HdrDirector, row.header)
         THEN found
    ELSE found

RECURSIVE ParseRows(_, _)
ParseRows(found, rows) ==
    IF rows = <<>> THEN found
    ELSE ParseRows(ParseRow(found, rows[1]), Tail(rows))

\* the infobox fields: the defaults when the page has no infobox
ParseInfobox(infobox) ==
    IF infobox = Nothing THEN FoundDefaults
    ELSE ParseRows(FoundDefaults, Val(infobox))

\* the paragraph filter and the cut after four summary lines
RECURSIVE SummaryLines(_, _)
SummaryLines(paragraphs, summary_lines) ==
    IF paragraphs = <<>> THEN summary_lines
    ELSE LET p == paragraphs[1]
             lines == IF p.text # "" /\ ~p.startsCoordinates
                         /\ ~p.otherUses /\ ~p.banner
                      THEN Append(summary_lines, p.text)
                      ELSE summary_lines
         IN  IF Len(lines) >= 4 THEN lines
             ELSE SummaryLines(Tail(paragraphs), lines)

NoSummaryFound == <<"No summary found.">>

\* "\n".join(summary_lines[:4]) if summary_lines else "No summary found."
FoundSummary(paragraphs) ==
    LET summary_lines == SummaryLines(paragraphs, <<>>)
    IN  IF summary_lines # <<>>
        THEN SubSeq(summary_lines, 1, IF Len(summary_lines) < 4
                                      THEN Len(summary_lines) ELSE 4)
        ELSE NoSummaryFound

\* the elements of a list, as a set
Range(seq) == {seq[i] : i \in 1..Len(seq)}

\* list(set(found_branches)): the distinct elements in any order
ListOfSet(seq) ==
    {l \in [1..Cardinality(Range(seq)) -> Range(seq)] : Range(l) = Range(seq)}

\* exception classes and their base classes
BaseClass ==
    [Timeout |-> "RequestException", ConnectionError |-> "RequestException",
     HTTPError |-> "RequestException", RequestException |-> "Exception",
     AttributeError |-> "Exception", ValueError |-> "Exception",
     TypeError |-> "Exception", Exception |-> "BaseException"]

RECURSIVE IsInstance(_, _)
IsInstance(exc, cls) ==
    \/ exc = cls
    \/ exc \in DOMAIN BaseClass /\ IsInstance(BaseClass[exc], cls)

\* the except clauses without the last, catch-all one
FetchExceptClausesNoCatchAll == <<"Timeout", "RequestException">>

\* the except clauses of fetch_from_wikipedia, each returning None
FetchExceptClauses == <<"Timeout", "RequestException", "Exception">>

\* the try block: what it raises (None when it returns) and what it returns
FetchTryBlock(institution_name, http, page, branches) ==
    IF http # "ok"
    THEN [raised |-> http, details |-> Nothing, event |-> http]
    ELSE IF page.disambigbox
    THEN [raised |-> None, details |-> Nothing, event |-> "disambiguation"]
    ELSE IF page.title = Nothing
    THEN [raised |-> "AttributeError", details |-> Nothing,
          event |-> "AttributeError"]
    ELSE IF IsSubstring(StrDisambiguation, Lower(Val(page.title)))
    THEN [raised |-> None, details |-> Nothing, event |-> "disambiguation"]
    ELSE LET found == ParseInfobox(page.infobox)
         IN  [raised |-> None,
              details |-> Some(
                  [name |-> IF page.h1 # Nothing THEN Val(page.h1)
                            ELSE institution_name,
                   founder |-> found.founder,
                   founded_year |-> found.founded_year,
                   branches |-> branches,
                   employees |-> found.employees,
                   summary |-> FoundSummary(page.paragraphs)]),
              event |-> "parsed"]

\* the orders list(set(found_branches)) can come out in, for a page
BranchOrders(page) == ListOfSet(ParseInfobox(page.infobox).branches)

fetch_from_wikipedia(institution_name, http, page, branches) ==
    LET r == FetchTryBlock(institution_name, http, page, branches)
    IN  IF r.raised # None
           /\ \E i \in 1..Len(FetchExceptClauses) :
                  IsInstance(r.raised, FetchExceptClauses[i])
        THEN [r EXCEPT !.raised = None, !.details = Nothing]
        ELSE r

(***************************************************************************)
(* State                                                                   *)
(***************************************************************************)
VARIABLES
    pc,                         \* where the running handler is
    req,                        \* the entry point the current run called
    HARDCODED_INSTITUTION_DATA, \* module global of utils/institution.py
    institution_name,           \* argument of get_institution_info
    normalized_input_name,      \* its local
    wiki_details,               \* its local: Optional[InstitutionDetails]
    fetch_event,                \* how the try block of the fetch ended
    fetched,                    \* the page titles requests.get was called on
    trace,                      \* the stages run so far, in order
    ipc_qa,                     \* module global of utils/ipc_bot.py
    ipc_fault,                  \* the exception setup_ipc_qa raised, if any
    file_type,                  \* argument of setup_doc_qa
    loader,                     \* the loader setup_doc_qa constructed
    loaded,                     \* loader.load() returned
    doc_qa,                     \* the chain setup_doc_qa returned
    result                      \* what the entry point gave its caller

vars ==
    << pc, req, HARDCODED_INSTITUTION_DATA, institution_name,
       normalized_input_name, wiki_details, fetch_event, fetched, trace,
       ipc_qa, ipc_fault, file_type, loader, loaded, doc_qa, result >>

\* an exception: its class and the call that raised it
NoException == [type |-> None, origin |-> None]
Exc(type, origin) == [type |-> type, origin |-> origin]

\* nothing returned or raised yet
NoResult ==
    [kind |-> "pending", source |-> None, details |-> Nothing,
     error |-> NoException]

Returned(source, details) ==
    [kind |-> "returned", source |-> source, details |-> Some(details),
     error |-> NoException]

\* a chain's answer, or a chain object: no InstitutionDetails in it
ReturnedValue(source) ==
    [kind |-> "returned", source |-> source, details |-> Nothing,
     error |-> NoException]

Raised(exc) ==
    [kind |-> "raised", source |-> exc.origin, details |-> Nothing,
     error |-> exc]

\* the locals of a run of main() that has not called anything yet
FreshRun ==
    /\ institution_name = <<>>
    /\ normalized_input_name = <<>>
    /\ wiki_details = Nothing
    /\ fetch_event = None
    /\ fetched = <<>>
    /\ trace = <<>>
    /\ file_type = None
    /\ loader = None
    /\ loaded = FALSE
    /\ doc_qa = Nothing
    /\ result = NoResult

Init ==
    /\ pc = "import"
    /\ req = None
    /\ HARDCODED_INSTITUTION_DATA = HardcodedInstitutionData
    /\ ipc_qa = Nothing
    /\ ipc_fault = NoException
    /\ FreshRun

(***************************************************************************)
(* utils/ipc_bot.py                                                        *)
(***************************************************************************)
\* setup_ipc_qa(): the exception it raises (NoException when it returns)
setup_ipc_qa(key_set, load_ok, embed_ok) ==
    IF ~key_set THEN Exc("ValueError", "setup_ipc_qa")
    ELSE IF ~load_ok THEN Exc("LoaderError", "loader")
    ELSE IF ~embed_ok THEN Exc("ProviderError", "embedding")
    ELSE NoException

\* import of utils.ipc_bot: try: ipc_qa = setup_ipc_qa() / except Exception;
\* the first run of main() then renders the page and ends
ImportIpcBot ==
    /\ pc = "import"
    /\ \E key_set \in BOOLEAN, load_ok \in BOOLEAN, embed_ok \in BOOLEAN :
           LET e == setup_ipc_qa(key_set, load_ok, embed_ok)
           IN  /\ ipc_fault' = e
               /\ ipc_qa' = IF e = NoException THEN Some("RetrievalQA")
                            ELSE Nothing
    /\ pc' = "done"
    /\ UNCHANGED << req, HARDCODED_INSTITUTION_DATA, institution_name,
                    normalized_input_name, wiki_details, fetch_event, fetched,
                    trace, file_type, loader, loaded, doc_qa, result >>

\* Streamlit runs main() anew for the next interaction: the locals of
\* the run that ended are gone, the module globals stay
Rerun ==
    /\ pc = "done"
    /\ pc' = "idle"
    /\ req' = None
    /\ institution_name' = <<>>
    /\ normalized_input_name' = <<>>
    /\ wiki_details' = Nothing
    /\ fetch_event' = None
    /\ fetched' = <<>>
    /\ trace' = <<>>
    /\ file_type' = None
    /\ loader' = None
    /\ loaded' = FALSE
    /\ doc_qa' = Nothing
    /\ result' = NoResult
    /\ UNCHANGED << HARDCODED_INSTITUTION_DATA, ipc_qa, ipc_fault >>

\* app.py "Get Answer": answer = ipc_qa(ipc_question)
GetAnswer ==
    /\ pc = "idle"
    /\ req' = "ipc_qa"
    /\ \E retrieve_ok \in BOOLEAN, generate_ok \in BOOLEAN :
           result' =
               IF ipc_qa = Nothing THEN Raised(Exc("TypeError", "call"))
               ELSE IF ~retrieve_ok
                    THEN Raised(Exc("ProviderError", "embedding"))
               ELSE IF ~generate_ok
                    THEN Raised(Exc("ProviderError", "generation"))
               ELSE ReturnedValue("ipc_qa")
    /\ pc' = "done"
    /\ UNCHANGED << HARDCODED_INSTITUTION_DATA, institution_name,
                    normalized_input_name, wiki_details, fetch_event, fetched,
                    trace, ipc_qa, ipc_fault, file_type, loader, loaded,
                    doc_qa >>

(***************************************************************************)
(* utils/doc_qa.py                                                         *)
(***************************************************************************)
\* the extensions tried: the three the uploader accepts and one more
FileTypes == {"pdf", "txt", "docx", "xyz"}

\* if file_type == "pdf": PyPDFLoader else: TextLoader
ChooseLoader(ft) == IF ft = "pdf" THEN "PyPDFLoader" ELSE "TextLoader"

\* app.py "Document QA": doc_qa = setup_doc_qa(file_path, file_type=...)
SetupDocQa ==
    /\ pc = "idle"
    /\ req' = "setup_doc_qa"
    /\ \E ft \in FileTypes, load_ok \in BOOLEAN, embed_ok \in BOOLEAN :
           /\ file_type' = ft
           /\ loader' = ChooseLoader(ft)
           /\ loaded' = load_ok
           /\ doc_qa' = IF load_ok /\ embed_ok THEN Some("RetrievalQA")
                        ELSE Nothing
           /\ result' = IF ~load_ok THEN Raised(Exc("LoaderError", "loader"))
                        ELSE IF ~embed_ok
                             THEN Raised(Exc("ProviderError", "embedding"))
                        ELSE ReturnedValue("setup_doc_qa")
    /\ pc' = "done"
    /\ UNCHANGED << HARDCODED_INSTITUTION_DATA, institution_name,
                    normalized_input_name, wiki_details, fetch_event, fetched,
                    trace, ipc_qa, ipc_fault >>

(***************************************************************************)
(* get_institution_info                                                    *)
(***************************************************************************)
\* app.py "Fetch Details": details = get_institution_info(institution_name)
\* up to the normalization of the name
CallGetInstitutionInfo ==
    /\ pc = "idle"
    /\ req' = "get_institution_info"
    /\ \E n \in InputNames :
           /\ institution_name' = n
           /\ normalized_input_name' = TitleCaseWords(n)
    /\ pc' = "scrape"
    /\ UNCHANGED << HARDCODED_INSTITUTION_DATA, wiki_details, fetch_event,
                    fetched, trace, ipc_qa, ipc_fault, file_type, loader,
                    loaded, doc_qa, result >>

\* the scrape stage fetching once more after a first fetch gave None
ScrapeStageRetry ==
    /\ pc = "scrape"
    /\ \E response \in Responses :
       \E branches \in BranchOrders(response.page) :
           LET r == fetch_from_wikipedia(normalized_input_name, response.http,
                                         response.page, branches)
           IN  /\ fetch_event' = r.event
               /\ wiki_details' = r.details
               /\ pc' = IF r.details = Nothing /\ fetched = <<>>
                        THEN "scrape" ELSE "gate"
    /\ fetched' = Append(fetched, WikipediaTitle(normalized_input_name))
    /\ trace' = IF fetched = <<>> THEN Append(trace, "scrape") ELSE trace
    /\ UNCHANGED << req, HARDCODED_INSTITUTION_DATA, institution_name,
                    normalized_input_name, ipc_qa, ipc_fault, file_type,
                    loader, loaded, doc_qa, result >>

\* Step 1: wiki_details = fetch_from_wikipedia(normalized_input_name), in
\* the try block whose only except clause is ValueError
ScrapeStage ==
    /\ pc = "scrape"
    /\ \E response \in Responses :
       \E branches \in BranchOrders(response.page) :
           LET r == fetch_from_wikipedia(normalized_input_name, response.http,
                                         response.page, branches)
           IN  /\ fetch_event' = r.event
               /\ wiki_details' = r.details
               /\ IF r.raised = None THEN pc' = "gate" /\ result' = result
                  ELSE IF IsInstance(r.raised, "ValueError")
                       THEN pc' = "exact" /\ result' = result
                  ELSE /\ pc' = "done"
                       /\ result' = Raised(Exc(r.raised,
                                               "fetch_from_wikipedia"))
    /\ fetched' = Append(fetched, WikipediaTitle(normalized_input_name))
    /\ trace' = Append(trace, "scrape")
    /\ UNCHANGED << req, HARDCODED_INSTITUTION_DATA, institution_name,
                    normalized_input_name, ipc_qa, ipc_fault, file_type,
                    loader, loaded, doc_qa >>

\* the check passing a record that has either of the two fields
CompleteEither(details) ==
    details.summary # NoSummaryFound \/ details.founded_year # "Not Available"

\* the check for minimal data extracted from Wikipedia
Complete(details) ==
    details.summary # NoSummaryFound /\ details.founded_year # "Not Available"

\* the gate without its return: the lookup goes on to the catalog
GateStageNoReturn ==
    /\ pc = "gate"
    /\ trace' = Append(trace, "gate")
    /\ result' = IF wiki_details # Nothing /\ Complete(Val(wiki_details))
                 THEN Returned("wikipedia", Val(wiki_details))
                 ELSE result
    /\ pc' = "exact"
    /\ UNCHANGED << req, HARDCODED_INSTITUTION_DATA, institution_name,
                    normalized_input_name, wiki_details, fetch_event, fetched,
                    ipc_qa, ipc_fault, file_type, loader, loaded, doc_qa >>

\* if wiki_details: if <complete>: return wiki_details
GateStage ==
    /\ pc = "gate"
    /\ trace' = Append(trace, "gate")
    /\ IF wiki_details # Nothing /\ Complete(Val(wiki_details))
       THEN /\ result' = Returned("wikipedia", Val(wiki_details))
            /\ pc' = "done"
       ELSE /\ result' = result
            /\ pc' = "exact"
    /\ UNCHANGED << req, HARDCODED_INSTITUTION_DATA, institution_name,
                    normalized_input_name, wiki_details, fetch_event, fetched,
                    ipc_qa, ipc_fault, file_type, loader, loaded, doc_qa >>

\* the index of the entry with this key, 0 when there is none
KeyIndex(data, name) ==
    IF \E i \in 1..Len(data) : data[i].key = name
    THEN CHOOSE i \in 1..Len(data) : data[i].key = name
    ELSE 0

\* Step 2: if normalized_input_name in HARDCODED_INSTITUTION_DATA
ExactStage ==
    /\ pc = "exact"
    /\ trace' = Append(trace, "exact")
    /\ LET i == KeyIndex(HARDCODED_INSTITUTION_DATA, normalized_input_name)
       IN  IF i # 0
           THEN /\ result' = Returned("exact",
                                      HARDCODED_INSTITUTION_DATA[i].details)
                /\ pc' = "done"
           ELSE /\ result' = result
                /\ pc' = "alias"
    /\ UNCHANGED << req, HARDCODED_INSTITUTION_DATA, institution_name,
                    normalized_input_name, wiki_details, fetch_event, fetched,
                    ipc_qa, ipc_fault, file_type, loader, loaded, doc_qa >>

\* the condition without the two lower() calls
AliasMatchCaseSensitive(name, key) ==
    \/ name = key
    \/ IsSubstring(name, key)

\* the condition of the alias loop, for one key
AliasMatch(name, key) ==
    \/ Lower(name) = Lower(key)
    \/ IsSubstring(Lower(name), Lower(key))

\* the loop keeping the match instead of returning it: the last one wins
RECURSIVE AliasLoopLast(_, _, _)
AliasLoopLast(data, name, i) ==
    IF i > Len(data) THEN 0
    ELSE LET later == AliasLoopLast(data, name, i + 1)
         IN  IF later # 0 THEN later
             ELSE IF AliasMatch(name, data[i].key) THEN i
             ELSE 0

\* the loop falling back to the first entry when nothing matches
RECURSIVE AliasLoopDefault(_, _, _)
AliasLoopDefault(data, name, i) ==
    IF i > Len(data) THEN 1
    ELSE IF AliasMatch(name, data[i].key) THEN i
    ELSE AliasLoopDefault(data, name, i + 1)

\* for key, details in HARDCODED_INSTITUTION_DATA.items(): the index the
\* loop returns at, from entry i on; 0 when it runs to the end
RECURSIVE AliasLoop(_, _, _)
AliasLoop(data, name, i) ==
    IF i > Len(data) THEN 0
    ELSE IF AliasMatch(name, data[i].key) THEN i
    ELSE AliasLoop(data, name, i + 1)

\* the alias loop storing its hit under the normalized name
AliasStageCaching ==
    /\ pc = "alias"
    /\ trace' = Append(trace, "alias")
    /\ LET i == AliasLoop(HARDCODED_INSTITUTION_DATA, normalized_input_name, 1)
       IN  IF i # 0
           THEN /\ result' = Returned("alias",
                                      HARDCODED_INSTITUTION_DATA[i].details)
                /\ HARDCODED_INSTITUTION_DATA' =
                       Append(HARDCODED_INSTITUTION_DATA,
                              [key |-> normalized_input_name,
                               details |->
                                   HARDCODED_INSTITUTION_DATA[i].details])
                /\ pc' = "done"
           ELSE /\ result' = result
                /\ HARDCODED_INSTITUTION_DATA' = HARDCODED_INSTITUTION_DATA
                /\ pc' = "exhausted"
    /\ UNCHANGED << req, institution_name, normalized_input_name,
                    wiki_details, fetch_event, fetched, ipc_qa, ipc_fault,
                    file_type, loader, loaded, doc_qa >>

\* Step 3: the alias loop
AliasStage ==
    /\ pc = "alias"
    /\ trace' = Append(trace, "alias")
    /\ LET i == AliasLoop(HARDCODED_INSTITUTION_DATA, normalized_input_name, 1)
       IN  IF i # 0
           THEN /\ result' = Returned("alias",
                                      HARDCODED_INSTITUTION_DATA[i].details)
                /\ pc' = "done"
           ELSE /\ result' = result
                /\ pc' = "exhausted"
    /\ UNCHANGED << req, HARDCODED_INSTITUTION_DATA, institution_name,
                    normalized_input_name, wiki_details, fetch_event, fetched,
                    ipc_qa, ipc_fault, file_type, loader, loaded, doc_qa >>

\* raise ValueError(f"No data available for ...")
Exhaustion ==
    /\ pc = "exhausted"
    /\ trace' = Append(trace, "exhausted")
    /\ result' = Raised(Exc("ValueError", "get_institution_info"))
    /\ pc' = "done"
    /\ UNCHANGED << req, HARDCODED_INSTITUTION_DATA, institution_name,
                    normalized_input_name, wiki_details, fetch_event, fetched,
                    ipc_qa, ipc_fault, file_type, loader, loaded, doc_qa >>

(***************************************************************************)
(* Specification                                                           *)
(***************************************************************************)
Next ==
    \/ ImportIpcBot
    \/ GetAnswer
    \/ SetupDocQa
    \/ CallGetInstitutionInfo
    \/ ScrapeStage
    \/ GateStage
    \/ ExactStage
    \/ AliasStage
    \/ Exhaustion
    \/ Rerun

Spec == Init /\ [][Next]_vars

\* a call of get_institution_info has returned or raised
LookupDone == req = "get_institution_info" /\ pc = "done"

(***************************************************************************)
(* Properties                                                              *)
(***************************************************************************)
\* the scrape stage gave no record the gate let through
NoAcceptedRecord ==
    \/ wiki_details = Nothing
    \/ Val(wiki_details).summary = NoSummaryFound
    \/ Val(wiki_details).founded_year = "Not Available"

\* C1: for every input name that equals a catalog key up to letter case,
\* a lookup whose scrape stage returned no data returns the catalog entry
\* of that key and does not raise.
C1_FallbackReturnsCatalogEntry ==
    (LookupDone /\ wiki_details = Nothing) =>
        \A i \in 1..Len(HardcodedInstitutionData) :
            Lower(institution_name) = Lower(HardcodedInstitutionData[i].key)
                => /\ result.kind = "returned"
                   /\ result.source \in {"exact", "alias"}
                   /\ result.details
                          = Some(HardcodedInstitutionData[i].details)

\* the lower-cased "indian institute of science" after a timeout
C1_Witness ==
    /\ LookupDone
    /\ fetch_event = "Timeout"
    /\ wiki_details = Nothing
    /\ institution_name = Lower(Key2)
    /\ result.source = "alias"
    /\ result.details = Some(Details2)

\* C2: when the scrape stage yields no accepted record, the lookups of
\* "iit bombay" and of "IIT BOMBAY" both return the catalog entry keyed
\* "Indian Institute of Technology Bombay".
C2_IitBombayResolves ==
    (/\ LookupDone
     /\ institution_name \in {NameIitBombayLower, NameIitBombayUpper}
     /\ NoAcceptedRecord)
        => /\ result.kind = "returned"
           /\ result.details = Some(Details1)

\* the normalized name matches the key at index i in neither catalog stage
MissesKey(i) ==
    LET key == HardcodedInstitutionData[i].key
        name == TitleCaseWords(institution_name)
    IN  /\ name # key
        /\ Lower(name) # Lower(key)
        /\ ~IsSubstring(Lower(name), Lower(key))

\* C3: a lookup in which no stage produced a record (no accepted scraped
\* record, no exact match, no case-insensitive or substring match) raises
\* the "No data available" ValueError and returns no record.
C3_Exhaustion ==
    (/\ LookupDone
     /\ NoAcceptedRecord
     /\ \A i \in 1..Len(HardcodedInstitutionData) : MissesKey(i))
        => /\ result.kind = "raised"
           /\ result.error = Exc("ValueError", "get_institution_info")
           /\ result.details = Nothing

\* "Fictional University of Nowhere XYZ" with an incomplete scraped record
C3_Witness ==
    /\ LookupDone
    /\ institution_name = NameNowhere
    /\ wiki_details # Nothing
    /\ result.kind = "raised"
    /\ trace = <<"scrape", "gate", "exact", "alias", "exhausted">>

\* C4: setup_doc_qa called with a type outside {pdf, txt, docx} fails with
\* UnsupportedFormat: no loader is constructed or run, no index is built.
C4_UnsupportedFormat ==
    (/\ req = "setup_doc_qa"
     /\ pc = "done"
     /\ file_type \notin {"pdf", "txt", "docx"})
        => /\ result.kind = "raised"
           /\ result.error.type = "UnsupportedFormat"
           /\ loader = None
           /\ ~loaded
           /\ doc_qa = Nothing

\* C5: a lookup returns the scraped record exactly when its summary is not
\* "No summary found." and its founded_year is not "Not Available"; any
\* other scraped record is dropped and the catalog stages decide.
C5_CompletenessGate ==
    LookupDone =>
        /\ result.source = "wikipedia" <=> ~NoAcceptedRecord
        /\ result.source = "wikipedia" =>
               result.kind = "returned" /\ result.details = wiki_details
        /\ NoAcceptedRecord =>
               /\ Len(trace) >= 3
               /\ trace[3] = "exact"
               /\ result.source \in {"exact", "alias", "get_institution_info"}

\* a record with founder, branches and employees but no year is dropped
C5_Witness ==
    /\ LookupDone
    /\ wiki_details # Nothing
    /\ Val(wiki_details).founder # "Not Available"
    /\ Val(wiki_details).branches # <<>>
    /\ Val(wiki_details).employees # "Not Available"
    /\ Val(wiki_details).summary # NoSummaryFound
    /\ Val(wiki_details).founded_year = "Not Available"
    /\ result.source = "exact"

StageOrder == <<"scrape", "gate", "exact", "alias", "exhausted">>

\* C6: the stages of a lookup run in the order scrape, gate, exact match,
\* alias match, exhaustion; none runs once a record was produced; a
\* complete scraped record wins over a catalog key and an exact match is
\* returned without the alias stage being run.
C6_StageOrder ==
    /\ Len(trace) <= Len(StageOrder)
    /\ \A i \in 1..Len(trace) : trace[i] = StageOrder[i]
    /\ pc \in {"scrape", "gate", "exact", "alias", "exhausted"}
           => result = NoResult
    /\ LookupDone =>
           /\ result.kind # "pending"
           /\ result.source = "wikipedia" => trace = SubSeq(StageOrder, 1, 2)
           /\ result.source = "exact" => trace = SubSeq(StageOrder, 1, 3)
           /\ result.source = "alias" => trace = SubSeq(StageOrder, 1, 4)
           /\ result.kind = "raised" => trace = StageOrder
           /\ ~NoAcceptedRecord => result.details = wiki_details
           /\ (/\ NoAcceptedRecord
               /\ \E i \in 1..Len(HardcodedInstitutionData) :
                      HardcodedInstitutionData[i].key
                          = TitleCaseWords(institution_name))
                  => result.source = "exact"

\* "Stanford University" is a catalog key and the scraped record is returned
C6_Witness ==
    /\ LookupDone
    /\ institution_name = Key5
    /\ result.source = "wikipedia"
    /\ result.details # Some(Details5)

FetchFailures ==
    {"Timeout", "ConnectionError", "HTTPError", "AttributeError",
     "disambiguation"}

\* C7: whatever the fetch runs into (timeout, HTTP error, network error,
\* disambiguation page, page without a title), fetch_from_wikipedia gives
\* None and the lookup goes on; the only exception a lookup raises is the
\* ValueError of the exhaustion, after both catalog stages missed.
C7_OnlyNotFoundSurfaces ==
    req = "get_institution_info" =>
        /\ (Len(trace) >= 1 /\ fetch_event \in FetchFailures) =>
               /\ wiki_details = Nothing
               /\ Len(trace) = 1 => pc = "gate"
        /\ result.kind = "raised" =>
               /\ result.error = Exc("ValueError", "get_institution_info")
               /\ trace = StageOrder

\* a page without a title, and the catalog entry is returned all the same
C7_Witness ==
    /\ LookupDone
    /\ fetch_event = "AttributeError"
    /\ result.kind = "returned"
    /\ result.source = "alias"

\* C8: a failure of the loader or of the embedding provider while the IPC
\* index was built is not swallowed: the caller of ipc_qa gets that failure,
\* with its cause, and no other outcome in its place.
C8_ProviderErrorsPropagate ==
    (/\ req = "ipc_qa"
     /\ pc = "done"
     /\ ipc_fault.origin \in {"loader", "embedding"})
        => /\ result.kind = "raised"
           /\ result.error = ipc_fault

\* the normalized name matches the key at index i in the alias stage
AliasHit(i) ==
    LET key == HardcodedInstitutionData[i].key
        name == TitleCaseWords(institution_name)
    IN  Lower(name) = Lower(key) \/ IsSubstring(Lower(name), Lower(key))

\* C10: when the alias stage is reached, the entry it returns is the one
\* of the first key, in insertion order, that the lower-cased normalized
\* name equals or is a substring of; if there is such a key it returns.
C10_AliasFirstMatch ==
    (LookupDone /\ Len(trace) >= 4) =>
        \A i \in 1..Len(HardcodedInstitutionData) :
            (AliasHit(i) /\ \A j \in 1..(i - 1) : ~AliasHit(j))
                => /\ result.source = "alias"
                   /\ result.details
                          = Some(HardcodedInstitutionData[i].details)

\* "institute" is in four keys and the first of them is returned
C10_Witness ==
    /\ LookupDone
    /\ institution_name = NameInstitute
    /\ AliasHit(1) /\ AliasHit(2) /\ AliasHit(3) /\ AliasHit(6)
    /\ result.source = "alias"
    /\ result.details = Some(Details1)

\* a later key is returned when the earlier ones do not match: "ni" is in
\* "Jawaharlal Nehru University" first
C10_WitnessLater ==
    /\ LookupDone
    /\ result.source = "alias"
    /\ ~AliasHit(1) /\ ~AliasHit(2) /\ ~AliasHit(3)
    /\ AliasHit(4) /\ AliasHit(5)
    /\ result.details = Some(Details4)

\* C11: a lookup issues at most one HTTP fetch: exactly one once the
\* scrape stage has run, and none is added while the gate and the catalog
\* stages run, whatever the fetch ended in.
C11_NoRetry ==
    /\ Len(fetched) <= 1
    /\ (req = "get_institution_info" /\ pc # "scrape") => Len(fetched) = 1
    /\ (req = "get_institution_info" /\ Len(fetched) = 1) =>
           /\ pc # "scrape"
           /\ fetched = <<WikipediaTitle(TitleCaseWords(institution_name))>>

\* "jnu" timed out once, and the lookup went through both catalog stages
C11_Witness ==
    /\ LookupDone
    /\ institution_name = NameJnu
    /\ fetch_event = "Timeout"
    /\ fetched = <<UrlJnu>>
    /\ trace = StageOrder

OnlyWhitespace(name) == \A i \in 1..Len(name) : name[i] = " "

\* C13: a lookup of an empty or whitespace-only name with no accepted
\* scraped record does not raise: the alias stage returns the first entry
\* of the catalog.
C13_EmptyNameReturnsFirstEntry ==
    (LookupDone /\ OnlyWhitespace(institution_name) /\ NoAcceptedRecord) =>
        /\ result.kind = "returned"
        /\ result.source = "alias"
        /\ result.details = Some(HardcodedInstitutionData[1].details)
        /\ "exhausted" \notin {trace[i] : i \in 1..Len(trace)}

\* two blanks, a failed fetch, and the IIT Bombay entry comes back
C13_Witness ==
    /\ LookupDone
    /\ institution_name = <<" ", " ">>
    /\ normalized_input_name = <<>>
    /\ wiki_details = Nothing
    /\ result.details = Some(Details1)
====
